---------------------------- MODULE Spec2Model ----------------------------
(***************************************************************************)
(* A model of the analysis engine of financial_sentiment_dashboard         *)
(* (analysis.py): the three price analyzers, their orchestration by        *)
(* run_analysis, the sentiment-trend aggregation and the trending-topic    *)
(* extraction.                                                             *)
(*                                                                         *)
(* Numbers.  A pandas/numpy float is modelled exactly: a rational n/d in   *)
(* lowest terms, or NaN, or +-inf ("Num").  The only irrational values the *)
(* analyzers produce are square roots (std) and their products/quotients   *)
(* with rationals; they are kept as sign * sqrt(rational) ("Surd").        *)
(* Rounding of binary floating point is not modelled.                      *)
(***************************************************************************)
EXTENDS Integers, Sequences, FiniteSets, TLC

VARIABLES
    df,         \* the caller's price table, as the analyzers leave it
    df0,        \* history: the price table as the caller built it
    tech,       \* result of the last technical_analysis call, or NotRun
    stat,       \* result of the last statistical_analysis call, or NotRun
    price,      \* result of the last price_analysis call, or NotRun
    pc,         \* position of run_analysis
    result,     \* the record run_analysis returns, or NotRun
    news,       \* the caller's headline table, as the analyzers leave it
    news0,      \* history: the headline table as the caller built it
    trends,     \* result of the last analyze_trends call, or NotRun
    lastPeriod, \* history: time_period of the last analyze_trends call
    prevTrends, \* history: result of the analyze_trends call before the last
    prevPeriod, \* history: time_period of that call
    nstats,     \* result of the last calculate_statistics call, or NotRun
    topics,     \* result of the last get_trending_topics call, or NotRun
    sel,        \* run_analysis: the sources file, the symbols, the prompt, the choice
    batch,      \* the per-symbol loop of fetch_related_financial_data or load_analysis_results
    main        \* process_financial_data: its arguments, position and the steps run

priceVars == <<df, df0, tech, stat, price, result>>

newsVars == <<news, news0, trends, lastPeriod, prevTrends, prevPeriod, nstats, topics>>

sysVars == <<sel, batch, main>>

vars == <<df, df0, tech, stat, price, pc, result,
          news, news0, trends, lastPeriod, prevTrends, prevPeriod, nstats, topics,
          sel, batch, main>>

\* ------------------------------------------------------------------ bounds
MaxLen == 21
MaxShort == 3
MaxRows == 3
MaxTitles == 3
MaxTopics == 2
MaxFrameRows == 2
MaxSources == 3
MaxPrompts == 2

\* ------------------------------------------------------- program constants
MA5Window == 5
MA20Window == 20
TradingDays == 252

\* an analyzer that has not been called yet has no dict
NotRun == [not_run |-> TRUE]

\* ------------------------------------------------------------ arithmetic
Abs(x) == IF x < 0 THEN -x ELSE x

Sign(x) == IF x < 0 THEN -1 ELSE IF x = 0 THEN 0 ELSE 1

RECURSIVE Gcd(_, _)
Gcd(a, b) == IF b = 0 THEN a ELSE Gcd(b, a % b)

NaN == [k |-> "nan", n |-> 0, d |-> 1]

Inf(s) == [k |-> "inf", n |-> s, d |-> 0]

\* the float n/d (d # 0), in lowest terms with a positive denominator
Fin(n, d) ==
    IF d = 1 THEN [k |-> "fin", n |-> n, d |-> 1]
    ELSE IF n = 0 THEN [k |-> "fin", n |-> 0, d |-> 1]
    ELSE LET g == Gcd(Abs(n), Abs(d))
             s == IF d < 0 THEN -1 ELSE 1
         IN  [k |-> "fin", n |-> s * (n \div g), d |-> s * (d \div g)]

F(i) == [k |-> "fin", n |-> i, d |-> 1]

IsFin(x) == x.k = "fin"

IsNaN(x) == x.k = "nan"

FNeg(x) == IF IsFin(x) THEN Fin(-x.n, x.d) ELSE IF IsNaN(x) THEN NaN ELSE Inf(-x.n)

FAdd(x, y) ==
    IF IsNaN(x) \/ IsNaN(y) THEN NaN
    ELSE IF IsFin(x) /\ IsFin(y) THEN
        IF x.d = y.d THEN Fin(x.n + y.n, x.d)
        ELSE Fin(x.n * y.d + y.n * x.d, x.d * y.d)
    ELSE IF IsFin(x) THEN y
    ELSE IF IsFin(y) THEN x
    ELSE IF x.n = y.n THEN x ELSE NaN

FSub(x, y) == FAdd(x, FNeg(y))

FMul(x, y) ==
    IF IsNaN(x) \/ IsNaN(y) THEN NaN
    ELSE IF IsFin(x) /\ IsFin(y) THEN Fin(x.n * y.n, x.d * y.d)
    ELSE IF Sign(x.n) * Sign(y.n) = 0 THEN NaN
    ELSE Inf(Sign(x.n) * Sign(y.n))

\* IEEE division: x/0 is +-inf for x # 0 and NaN for x = 0; no exception
FDiv(x, y) ==
    IF IsNaN(x) \/ IsNaN(y) THEN NaN
    ELSE IF IsFin(x) /\ IsFin(y) THEN
        IF y.n # 0 THEN Fin(x.n * y.d, x.d * y.n)
        ELSE IF x.n = 0 THEN NaN ELSE Inf(Sign(x.n))
    ELSE IF IsFin(x) THEN F(0)
    ELSE IF IsFin(y) THEN Inf(x.n * (IF y.n < 0 THEN -1 ELSE 1))
    ELSE NaN

\* x > y as numpy compares floats: every comparison with NaN is False
FGt(x, y) ==
    IF IsNaN(x) \/ IsNaN(y) THEN FALSE
    ELSE IF IsFin(x) /\ IsFin(y) THEN x.n * y.d > y.n * x.d
    ELSE IF IsFin(x) THEN y.n < 0
    ELSE IF IsFin(y) THEN x.n > 0
    ELSE x.n > y.n

\* sign * sqrt(q) for a rational q >= 0, or NaN
Surd(s, q) == [k |-> "surd", s |-> IF q.n = 0 THEN 0 ELSE s, q |-> q]

SurdNaN == [k |-> "nan", s |-> 0, q |-> F(0)]

\* np.sqrt of a variance (never negative, never inf here)
FSqrt(x) == IF IsFin(x) /\ x.n >= 0 THEN Surd(1, x) ELSE SurdNaN

\* surd * sqrt(c) for an integer c > 0
SurdMulSqrt(x, c) == IF x.k = "surd" THEN Surd(x.s, FMul(x.q, F(c))) ELSE x

SurdInf(s) == [k |-> "inf", s |-> s, q |-> F(0)]

\* float / surd, for a surd that is not 0
FDivSurd(x, y) ==
    IF y.k # "surd" \/ IsNaN(x) THEN SurdNaN
    ELSE IF y.s = 0 THEN
        IF IsFin(x) /\ x.n = 0 THEN SurdNaN ELSE SurdInf(Sign(x.n))
    ELSE IF IsFin(x) THEN Surd(Sign(x.n) * y.s, FDiv(FMul(x, x), y.q))
    ELSE SurdInf(x.n * y.s)

SurdIsZero(x) == x.k = "surd" /\ x.s = 0

\* ------------------------------------------------------- pandas reductions
RECURSIVE SumFrom(_, _)
\* sum of the non-NaN entries s[i..] (skipna)
SumFrom(s, i) ==
    IF i > Len(s) THEN F(0)
    ELSE IF IsNaN(s[i]) THEN SumFrom(s, i + 1)
    ELSE FAdd(s[i], SumFrom(s, i + 1))

CountValid(s) == Cardinality({i \in 1..Len(s) : ~IsNaN(s[i])})

\* Series.mean(): NaN entries skipped, NaN for no entry
Mean(s) == IF CountValid(s) = 0 THEN NaN ELSE FDiv(SumFrom(s, 1), F(CountValid(s)))

RECURSIVE SqDevFrom(_, _, _)
\* sum of (avg - s[i])^2 over the non-NaN entries s[i..]; a NaN square
\* (inf - inf) is not skipped and makes the sum NaN
SqDevFrom(s, avg, i) ==
    IF i > Len(s) THEN F(0)
    ELSE IF IsNaN(s[i]) THEN SqDevFrom(s, avg, i + 1)
    ELSE FAdd(FMul(FSub(avg, s[i]), FSub(avg, s[i])), SqDevFrom(s, avg, i + 1))

\* Series.var(ddof=1) as nanops.nanvar computes it: the mean of the valid
\* entries, then the sum of squared deviations over count - 1 (NaN when
\* count - 1 <= 0)
Var(s) ==
    IF CountValid(s) - 1 <= 0 THEN NaN
    ELSE FDiv(SqDevFrom(s, Mean(s), 1), F(CountValid(s) - 1))

\* mutant: NaN entries are not skipped (skipna=False)
StdKeepingNaN(s) ==
    IF \E i \in 1..Len(s) : IsNaN(s[i]) THEN SurdNaN ELSE FSqrt(Var(s))

\* Series.std(): sample standard deviation
Std(s) == FSqrt(Var(s))

Floats(c) == [i \in 1..Len(c) |-> F(c[i])]

RECURSIVE MaxFrom(_, _)
MaxFrom(c, i) ==
    IF i = Len(c) THEN c[i]
    ELSE LET m == MaxFrom(c, i + 1) IN IF c[i] > m THEN c[i] ELSE m

RECURSIVE MinFrom(_, _)
MinFrom(c, i) ==
    IF i = Len(c) THEN c[i]
    ELSE LET m == MinFrom(c, i + 1) IN IF c[i] < m THEN c[i] ELSE m

\* Series.max() / Series.min(): NaN for an empty column
ColMax(c) == IF Len(c) = 0 THEN NaN ELSE F(MaxFrom(c, 1))

ColMin(c) == IF Len(c) = 0 THEN NaN ELSE F(MinFrom(c, 1))

RECURSIVE RollFrom(_, _, _, _)
\* rows i.. of rolling(window=w).mean(), sum being the window sum before
\* row i: the entering value is added, the leaving value removed, and the
\* mean is NaN until w observations are in the window (min_periods = w)
RollFrom(c, w, i, sum) ==
    IF i > Len(c) THEN << >>
    ELSE <<IF i >= w
           THEN Fin(sum + c[i] - (IF i > w THEN c[i - w] ELSE 0), w)
           ELSE NaN>>
         \o RollFrom(c, w, i + 1, sum + c[i] - (IF i > w THEN c[i - w] ELSE 0))

\* mutant: the window is one row short
RollingMeanShortWindow(c, w) == RollFrom(c, w - 1, 1, 0)

\* Series.rolling(window=w).mean()
RollingMean(c, w) == RollFrom(c, w, 1, 0)

\* Series.pct_change(): c[i] / c[i-1] - 1, NaN at the first row
PctChange(c) ==
    [i \in 1..Len(c) |->
        IF i = 1 THEN NaN ELSE FSub(FDiv(F(c[i]), F(c[i - 1])), F(1))]

\* ------------------------------------------------------------ price table
\* A DataFrame: n rows, the set of column names, and one sequence per
\* column (<< >> for a column the table does not have).
Table(cols, close, volume) ==
    [n      |-> Len(close),
     cols   |-> cols,
     Close  |-> IF "Close" \in cols THEN close ELSE << >>,
     High   |-> IF "High" \in cols THEN [i \in 1..Len(close) |-> close[i] + 1] ELSE << >>,
     Low    |-> IF "Low" \in cols THEN close ELSE << >>,
     Volume |-> IF "Volume" \in cols THEN volume ELSE << >>,
     MA5    |-> << >>,
     MA20   |-> << >>,
     Returns |-> << >>]

\* dicts are functions from keys; {} is the function with no key
EmptyDict == [key \in {} |-> 0]

\* ----------------------------------------------------- technical_analysis
\* mutant: Returns holds price differences, not relative changes
WithIndicatorsDiff(t) ==
    [t EXCEPT !.cols = @ \cup {"MA5", "MA20", "Returns"},
              !.MA5 = RollingMean(t.Close, MA5Window),
              !.MA20 = RollingMean(t.Close, MA20Window),
              !.Returns = [i \in 1..Len(t.Close) |->
                              IF i = 1 THEN NaN ELSE F(t.Close[i] - t.Close[i - 1])]]

\* the table after lines 127-131: MA5, MA20 and Returns stored in it
WithIndicators(t) ==
    [t EXCEPT !.cols = @ \cup {"MA5", "MA20", "Returns"},
              !.MA5 = RollingMean(t.Close, MA5Window),
              !.MA20 = RollingMean(t.Close, MA20Window),
              !.Returns = PctChange(t.Close)]

\* the table technical_analysis leaves behind; df['Close'] raises KeyError
\* before any assignment when the column is absent
TechnicalTable(t) == IF "Close" \in t.cols THEN WithIndicators(t) ELSE t

\* the dict technical_analysis returns ({} from the except branch)
TechnicalResult(t) ==
    IF "Close" \notin t.cols THEN EmptyDict
    ELSE IF t.n = 0 THEN EmptyDict   \* iloc[-1] raises IndexError at line 137
    ELSE
        LET u == WithIndicators(t)
            base == [volatility |-> SurdMulSqrt(Std(u.Returns), TradingDays),
                     trend |-> IF FGt(F(u.Close[u.n]), u.MA20[u.n])
                               THEN "Upward" ELSE "Downward"]
            avg == Mean(Floats(u.Volume))
            vol == [avg_volume |-> avg,
                    volume_trend |-> IF FGt(F(u.Volume[u.n]), avg)
                                     THEN "Increasing" ELSE "Decreasing"]
        IN  IF "Volume" \in u.cols THEN base @@ vol ELSE base

\* --------------------------------------------------- statistical_analysis
\* mutant: the returns are taken from the High column
StatisticalTableFromHigh(t) ==
    IF "Returns" \in t.cols THEN t
    ELSE IF "Close" \in t.cols
         THEN [t EXCEPT !.cols = @ \cup {"Returns"}, !.Returns = PctChange(t.High)]
         ELSE t

\* the Returns column is computed only when the table has none
StatisticalTable(t) ==
    IF "Returns" \in t.cols THEN t
    ELSE IF "Close" \in t.cols
         THEN [t EXCEPT !.cols = @ \cup {"Returns"}, !.Returns = PctChange(t.Close)]
         ELSE t

\* mutant: no guard against a zero standard deviation
SharpeRatioUnguarded(mean, std) == SurdMulSqrt(FDivSurd(mean, std), TradingDays)

\* (mean / std) * sqrt(252) if std != 0 else 0; NaN != 0 is True
SharpeRatio(mean, std) ==
    IF ~SurdIsZero(std)
    THEN SurdMulSqrt(FDivSurd(mean, std), TradingDays)
    ELSE Surd(0, F(0))

\* the dict statistical_analysis returns; skewness, kurtosis and
\* price_correlation are computed by scipy/pandas without raising, are
\* not part of any property stated here, and are left out of the dict
StatisticalResult(t) ==
    IF "Returns" \notin t.cols /\ "Close" \notin t.cols THEN EmptyDict
    ELSE
        LET u == StatisticalTable(t)
            mean == Mean(u.Returns)
            std == Std(u.Returns)
        IN  [daily_return_mean |-> mean,
             daily_return_std |-> std,
             sharpe_ratio |-> SharpeRatio(mean, std)]

\* --------------------------------------------------------- price_analysis
\* mutant: the change is taken relative to the last Close
PriceChangeOverLast(c) ==
    FMul(FDiv(FSub(F(c[Len(c)]), F(c[1])), F(c[Len(c)])), F(100))

\* ((last - first) / first) * 100 on numpy scalars
PriceChange(c) == FMul(FDiv(FSub(F(c[Len(c)]), F(c[1])), F(c[1])), F(100))

PriceResult(t) ==
    IF ~({"High", "Low", "Close"} \subseteq t.cols) THEN EmptyDict
    ELSE IF t.n = 0 THEN EmptyDict   \* iloc[-1] raises IndexError at line 182
    ELSE [highest_price |-> ColMax(t.High),
          lowest_price |-> ColMin(t.Low),
          price_range |-> FSub(ColMax(t.High), ColMin(t.Low)),
          avg_price |-> Mean(Floats(t.Close)),
          price_std |-> Std(Floats(t.Close)),
          last_price |-> F(t.Close[t.n]),
          price_change |-> PriceChange(t.Close)]

\* -------------------------------------------------------------- calendar
\* days since 1970-01-01 of the civil date y-m-d (proleptic Gregorian)
DaysFromCivil(y, m, d) ==
    LET yy == IF m <= 2 THEN y - 1 ELSE y
        era == yy \div 400
        yoe == yy - era * 400
        doy == (153 * (IF m > 2 THEN m - 3 ELSE m + 9) + 2) \div 5 + d - 1
        doe == yoe * 365 + yoe \div 4 - yoe \div 100 + doy
    IN  era * 146097 + doe - 719468

\* the civil date [y, m, d] of a day number
CivilFromDays(days) ==
    LET z == days + 719468
        era == z \div 146097
        doe == z - era * 146097
        yoe == (doe - doe \div 1460 + doe \div 36524 - doe \div 146096) \div 365
        doy == doe - (365 * yoe + yoe \div 4 - yoe \div 100)
        mp == (5 * doy + 2) \div 153
        m == IF mp < 10 THEN mp + 3 ELSE mp - 9
    IN  [y |-> yoe + era * 400 + (IF m <= 2 THEN 1 ELSE 0),
         m |-> m,
         d |-> doy - (153 * mp + 2) \div 5 + 1]

\* ISO weekday, Monday = 1 .. Sunday = 7 (1970-01-01 was a Thursday)
IsoWeekday(days) == ((days + 3) % 7) + 1

IsLeap(y) == (y % 4 = 0 /\ y % 100 # 0) \/ y % 400 = 0

\* an ISO year has 53 weeks when 1 January is a Thursday, or a Wednesday
\* in a leap year
WeeksInYear(y) ==
    LET wd == IsoWeekday(DaysFromCivil(y, 1, 1))
    IN  IF wd = 4 \/ (wd = 3 /\ IsLeap(y)) THEN 53 ELSE 52

\* dt.isocalendar().week: the ISO 8601 week number, without its year
IsoWeek(days) ==
    LET y == CivilFromDays(days).y
        ordinal == days - DaysFromCivil(y, 1, 1) + 1
        w == (ordinal - IsoWeekday(days) + 10) \div 7
    IN  IF w < 1 THEN WeeksInYear(y - 1)
        ELSE IF w > WeeksInYear(y) THEN 1
        ELSE w

\* ------------------------------------------------------- headline table
\* A publishedAt cell: the ISO string the news source gives ("str"), a
\* missing value ("nan"), or, once converted, a timestamp ("ts") or NaT
\* ("nat"); t counts the hours since 1970-01-01T00:00Z.
Hours(y, m, d, h) == DaysFromCivil(y, m, d) * 24 + h

PubStr(t) == [kind |-> "str", t |-> t]

PubNaN == [kind |-> "nan", t |-> 0]

\* mutant: a timestamp is moved by a day when it is converted again
ToDatetimeCellShifting(v) ==
    IF v.kind = "str" THEN [kind |-> "ts", t |-> v.t]
    ELSE IF v.kind = "nan" THEN [kind |-> "nat", t |-> 0]
    ELSE IF v.kind = "ts" THEN [kind |-> "ts", t |-> v.t + 24]
    ELSE v

\* pd.to_datetime on one cell: strings are parsed, missing values become
\* NaT, timestamps stay as they are
ToDatetimeCell(v) ==
    IF v.kind = "str" THEN [kind |-> "ts", t |-> v.t]
    ELSE IF v.kind = "nan" THEN [kind |-> "nat", t |-> 0]
    ELSE v

\* pd.to_datetime on a column
ToDatetime(col) == [i \in 1..Len(col) |-> ToDatetimeCell(col[i])]

\* a group key, or the missing key of a NaT row
Key(v) == [na |-> FALSE, v |-> v]

NoKey == [na |-> TRUE, v |-> 0]

\* mutant: the daily period is the timestamp itself, not its date
PeriodCellByTimestamp(v, time_period) ==
    IF v.kind = "nat" THEN NoKey
    ELSE IF time_period = "weekly" THEN Key(IsoWeek(v.t \div 24))
    ELSE IF time_period = "monthly" THEN Key(CivilFromDays(v.t \div 24).m)
    ELSE Key(v.t)

\* the period of one converted cell: dt.isocalendar().week, dt.month or
\* dt.date (a date is kept as its day number)
PeriodCell(v, time_period) ==
    IF v.kind = "nat" THEN NoKey
    ELSE IF time_period = "weekly" THEN Key(IsoWeek(v.t \div 24))
    ELSE IF time_period = "monthly" THEN Key(CivilFromDays(v.t \div 24).m)
    ELSE Key(v.t \div 24)

PeriodColumn(col, time_period) ==
    [i \in 1..Len(col) |-> PeriodCell(col[i], time_period)]

NewsTable(pub, sentiment, title) ==
    [n |-> Len(pub),
     cols |-> {"title", "publishedAt", "sentiment"},
     publishedAt |-> pub,
     sentiment |-> sentiment,
     title |-> title,
     period |-> << >>]

\* ----------------------------------------------------------- analyze_trends
\* mutant: the labels are normalised in place as well
TrendsTableRelabelling(t, time_period) ==
    [t EXCEPT !.cols = @ \cup {"period"},
              !.publishedAt = ToDatetime(t.publishedAt),
              !.period = PeriodColumn(ToDatetime(t.publishedAt), time_period),
              !.sentiment = [i \in 1..t.n |->
                                IF t.sentiment[i] = "POSITIVE" THEN "positive" ELSE "negative"]]

\* the table analyze_trends leaves behind (lines 20-28): publishedAt
\* converted in place, the period column written
TrendsTable(t, time_period) ==
    [t EXCEPT !.cols = @ \cup {"period"},
              !.publishedAt = ToDatetime(t.publishedAt),
              !.period = PeriodColumn(ToDatetime(t.publishedAt), time_period)]

\* groupby(['period', 'sentiment']).size(): rows with a missing key are
\* dropped
GroupSize(t, key, label) ==
    Cardinality({i \in 1..t.n : t.period[i] = Key(key) /\ t.sentiment[i] = label})

GroupKeys(t) == {t.period[i].v : i \in {j \in 1..t.n : ~t.period[j].na}}

GroupLabels(t) == {t.sentiment[i] : i \in {j \in 1..t.n : ~t.period[j].na}}

\* .unstack(fill_value=0): one row per period, one column per label
SentimentDist(t) ==
    [key \in GroupKeys(t) |-> [label \in GroupLabels(t) |-> GroupSize(t, key, label)]]

RECURSIVE SumOver(_, _)
\* the sum of f over the set S of its arguments
SumOver(f, S) ==
    IF S = {} THEN 0
    ELSE LET x == CHOOSE y \in S : TRUE IN f[x] + SumOver(f, S \ {x})

\* mutant: percentages of all headlines, not of the bucket's
PercentagesOfAll(dist) ==
    [key \in DOMAIN dist |->
        [label \in DOMAIN dist[key] |->
            FMul(FDiv(F(dist[key][label]),
                      F(SumOver([k \in DOMAIN dist |-> SumOver(dist[k], DOMAIN dist[k])],
                                DOMAIN dist))),
                 F(100))]]

\* sentiment_dist.div(sentiment_dist.sum(axis=1), axis=0) * 100
Percentages(dist) ==
    [key \in DOMAIN dist |->
        [label \in DOMAIN dist[key] |->
            FMul(FDiv(F(dist[key][label]), F(SumOver(dist[key], DOMAIN dist[key]))),
                 F(100))]]

\* the dict analyze_trends returns
TrendsResult(t, time_period) ==
    LET u == TrendsTable(t, time_period)
    IN  [counts |-> SentimentDist(u), percentages |-> Percentages(SentimentDist(u))]

\* ----------------------------------------------------- calculate_statistics
\* df['sentiment'].value_counts().to_dict(): every row counts
LabelCounts(t) ==
    [label \in {t.sentiment[i] : i \in 1..t.n} |->
        Cardinality({i \in 1..t.n : t.sentiment[i] = label})]

\* row i of pd.to_datetime(df['publishedAt']).dt.date; the table is not
\* written
DateCell(t, i) == PeriodCell(ToDatetimeCell(t.publishedAt[i]), "daily")

RECURSIVE SortedSeq(_)
\* the elements of a set of integers in ascending order (groupby sorts
\* its keys)
SortedSeq(S) ==
    IF S = {} THEN << >>
    ELSE LET m == CHOOSE x \in S : \A y \in S : x <= y
         IN  <<m>> \o SortedSeq(S \ {m})

DayCount(t, day, label) ==
    Cardinality({i \in 1..t.n : DateCell(t, i) = Key(day) /\ t.sentiment[i] = label})

\* x.value_counts().index[0] for one day: a label of maximal count.  The
\* order value_counts gives to labels of equal count comes from an
\* unstable sort and is not fixed by the code, so every such label is a
\* possible outcome.
ModeCandidates(t, day) ==
    LET labels == {t.sentiment[i] : i \in {j \in 1..t.n : DateCell(t, j) = Key(day)}}
    IN  {l \in labels : \A m \in labels : DayCount(t, day, m) <= DayCount(t, day, l)}

Days(t) == SortedSeq({DateCell(t, i).v : i \in {j \in 1..t.n : ~DateCell(t, j).na}})

\* (daily_sentiment != daily_sentiment.shift()).sum(): shift() puts NaN
\* before the first day, and a label != NaN is True
ShiftCount(modes) ==
    Cardinality({i \in 1..Len(modes) : i = 1 \/ modes[i] # modes[i - 1]})

\* the dict calculate_statistics returns for one choice of the daily modes
\* (daily_sentiment, a local of the function, is kept beside the counts;
\* avg_confidence, sentiment_by_confidence and sentiment_volatility are not
\* part of any property stated here and are left out)
StatisticsResult(t, modes) ==
    [total_articles |-> t.n,
     sentiment_distribution |-> LabelCounts(t),
     daily_sentiment |-> modes,
     sentiment_shifts |-> ShiftCount(modes)]

\* ----------------------------------------------------- get_trending_topics
Space == " "

UpperLetters ==
    <<"A", "B", "C", "D", "E", "F", "G", "H", "I", "J", "K", "L", "M",
      "N", "O", "P", "Q", "R", "S", "T", "U", "V", "W", "X", "Y", "Z">>

LowerLetters ==
    <<"a", "b", "c", "d", "e", "f", "g", "h", "i", "j", "k", "l", "m",
      "n", "o", "p", "q", "r", "s", "t", "u", "v", "w", "x", "y", "z">>

\* str.lower() on one character: letters A-Z change, the rest stays
LowerChar(c) ==
    IF \E i \in 1..Len(UpperLetters) : UpperLetters[i] = c
    THEN LowerLetters[CHOOSE i \in 1..Len(UpperLetters) : UpperLetters[i] = c]
    ELSE c

Lower(text) == [i \in 1..Len(text) |-> LowerChar(text[i])]

RECURSIVE JoinFrom(_, _, _)
\* ' '.join(df['title'].dropna()): rows i.. of the column, first telling
\* whether no title has been written yet
JoinFrom(col, i, first) ==
    IF i > Len(col) THEN << >>
    ELSE IF col[i].nan THEN JoinFrom(col, i + 1, first)
    ELSE (IF first THEN << >> ELSE <<Space>>) \o col[i].s \o JoinFrom(col, i + 1, FALSE)

RECURSIVE SplitFrom(_, _, _)
\* str.split(): the maximal runs of non-blank characters, in order
SplitFrom(text, i, word) ==
    IF i > Len(text) THEN (IF word = << >> THEN << >> ELSE <<word>>)
    ELSE IF text[i] = Space
         THEN (IF word = << >> THEN << >> ELSE <<word>>) \o SplitFrom(text, i + 1, << >>)
         ELSE SplitFrom(text, i + 1, Append(word, text[i]))

\* words = all_titles.lower().split()
Words(t) == SplitFrom(Lower(JoinFrom(t.title, 1, TRUE)), 1, << >>)

\* the stopword set, each word as its sequence of characters
Stopwords ==
    {<<"t", "h", "e">>, <<"a">>, <<"a", "n">>,
     <<"a", "n", "d">>, <<"o", "r">>, <<"b", "u", "t">>,
     <<"i", "n">>, <<"o", "n">>, <<"a", "t">>,
     <<"t", "o">>, <<"f", "o", "r">>, <<"o", "f">>,
     <<"w", "i", "t", "h">>}

WordCount(words, w) == Cardinality({i \in 1..Len(words) : words[i] = w})

\* mutant: the stopwords stay in
KeptWordsAll(words) == {words[i] : i \in 1..Len(words)}

\* word_freq after the stopwords are removed: the words it is indexed by
KeptWords(words) == {words[i] : i \in 1..Len(words)} \ Stopwords

\* value_counts() sorts by descending count; the order it gives to words of
\* equal count comes from an unstable sort and is not fixed by the code, so
\* every descending order is a possible outcome
FreqOrders(words) ==
    LET kept == KeptWords(words)
        k == Cardinality(kept)
    IN  {o \in [1..k -> kept] :
            /\ \A i, j \in 1..k : i # j => o[i] # o[j]
            /\ \A i \in 1..k : i < k => WordCount(words, o[i]) >= WordCount(words, o[i + 1])}

\* word_freq.head(n_topics).to_dict() for one such order, as the sequence
\* of its (word, count) items, beside the argument of the call
TopicsResult(words, order, n_topics) ==
    [n_topics |-> n_topics,
     items |-> [i \in 1..(IF n_topics < Len(order) THEN n_topics ELSE Len(order)) |->
                   [word |-> order[i], count |-> WordCount(words, order[i])]]]

\* ---------------------------------------------------------------- inputs
\* Close values: a zero first price, equal and unequal prices, and 1, 2, 4
\* for equal non-zero returns
StepPrices == {0, 1, 2}

ShortPrices == {0, 1, 2, 4}

\* Close columns: every step series (a up to row k, b after it) of the
\* three lengths up to MaxLen (just below the MA20 window, and at or
\* above it), and every series of up to MaxShort rows
StepSeries ==
    {[i \in 1..n |-> IF i <= k THEN a ELSE b] :
        n \in (MaxLen - 2)..MaxLen, k \in 0..MaxLen, a \in StepPrices, b \in StepPrices}

ShortSeries == UNION {[1..n -> ShortPrices] : n \in 0..MaxShort}

CloseSeries == StepSeries \cup ShortSeries

\* Volume columns: flat, or rising by one a row
VolumeSeries(n) == {[i \in 1..n |-> 1], [i \in 1..n |-> i]}

AllColumns == {"Close", "High", "Low", "Volume"}

\* tables that lack one column (Volume, High or Close)
PartialColumns == {AllColumns \ {c} : c \in {"Volume", "High", "Close"}}

PriceTables ==
    UNION {{Table(AllColumns, c, v) : v \in VolumeSeries(Len(c))}
           \cup {Table(cs, c, [i \in 1..Len(c) |-> 1]) : cs \in PartialColumns} :
              c \in CloseSeries}

Granularities == {"daily", "weekly", "monthly"}

Labels == {"POSITIVE", "NEGATIVE"}

\* publication times: two hours of one day, another month, a day of
\* December that lies in ISO week 1 of the next year, and 1 January of that
\* year
Times ==
    {Hours(2024, 1, 1, 9), Hours(2024, 1, 1, 23), Hours(2024, 2, 1, 0),
     Hours(2024, 12, 30, 8), Hours(2025, 1, 1, 0)}

PubCells == {PubStr(t) : t \in Times} \cup {PubNaN}

Text(s) == [nan |-> FALSE, s |-> s]

NoTitle == [nan |-> TRUE, s |-> << >>]

\* headline tables of up to MaxRows rows, newest first as the news source
\* sorts them (rows without a time last), every row labelled
TrendTables ==
    UNION {{NewsTable(pub, lab, [i \in 1..n |-> Text(<<"x">>)]) :
               pub \in {q \in [1..n -> PubCells] :
                           \A i \in 1..n : i < n => q[i].t >= q[i + 1].t},
               lab \in [1..n -> Labels]} :
           n \in 0..MaxRows}

\* titles: upper and lower case, the stopword, words that contain it,
\* leading, trailing and repeated blanks, the empty title, a missing title
TitleCells ==
    {Text(<<"x">>), Text(<<"X", " ", "a">>), Text(<<"y", " ", "x">>),
     Text(<<" ", "Y", " ", " ", "A", " ">>), Text(<<"a", "x">>), Text(<< >>), NoTitle}

TopicTables ==
    UNION {{NewsTable([i \in 1..n |-> PubStr(Hours(2024, 1, 1, 9))],
                      [i \in 1..n |-> "POSITIVE"], ttl) :
               ttl \in [1..n -> TitleCells]} :
           n \in 0..MaxTitles}

NoNews == NewsTable(<< >>, << >>, << >>)

NoPrices == Table(AllColumns, << >>, << >>)

\* ------------------------------------------- run_analysis: stock selection
\* Texts (file paths, symbols, input lines) are sequences of characters.
\* the code point of an upper-case letter
Ord(c) == 64 + (CHOOSE i \in 1..Len(UpperLetters) : UpperLetters[i] = c)

RECURSIVE LexLess(_, _)
\* a < b as Python compares strings: by code point, a proper prefix first
LexLess(a, b) ==
    IF b = << >> THEN FALSE
    ELSE IF a = << >> THEN TRUE
    ELSE IF a[1] = b[1] THEN LexLess(Tail(a), Tail(b))
    ELSE Ord(a[1]) < Ord(b[1])

RECURSIVE SortedTexts(_)
\* sorted(list(set(...))): the texts of a set in ascending order
SortedTexts(S) ==
    IF S = {} THEN << >>
    ELSE LET m == CHOOSE x \in S : \A y \in S \ {x} : LexLess(x, y)
         IN  <<m>> \o SortedTexts(S \ {m})

RECURSIVE SplitOnFrom(_, _, _, _)
\* str.split(sep) from position i on, cur being the part under way; empty
\* parts are kept
SplitOnFrom(text, sep, i, cur) ==
    IF i > Len(text) THEN <<cur>>
    ELSE IF text[i] = sep THEN <<cur>> \o SplitOnFrom(text, sep, i + 1, << >>)
    ELSE SplitOnFrom(text, sep, i + 1, Append(cur, text[i]))

SplitOn(text, sep) == SplitOnFrom(text, sep, 1, << >>)

\* sub in text
Contains(text, sub) ==
    \E i \in 0..(Len(text) - Len(sub)) : SubSeq(text, i + 1, i + Len(sub)) = sub

StockDataTag == <<"s", "t", "o", "c", "k", "_", "d", "a", "t", "a">>

\* the stock rows of data_sources.csv
StockFiles(paths) == {i \in 1..Len(paths) : Contains(paths[i], StockDataTag)}

\* file.split('_')[2] exists for every stock row (IndexError otherwise)
SymbolsParse(paths) == \A i \in StockFiles(paths) : Len(SplitOn(paths[i], "_")) >= 3

\* file.split('_')[2].split('.')[0]
SymbolOfPath(file) == SplitOn(SplitOn(file, "_")[3], ".")[1]

\* available_symbols after line 209: de-duplicated and sorted
AvailableSymbols(paths) ==
    SortedTexts({SymbolOfPath(paths[i]) : i \in StockFiles(paths)})

RECURSIVE StripLeft(_)
StripLeft(text) ==
    IF text # << >> /\ text[1] = " " THEN StripLeft(Tail(text)) ELSE text

RECURSIVE StripRight(_)
StripRight(text) ==
    IF text # << >> /\ text[Len(text)] = " "
    THEN StripRight(SubSeq(text, 1, Len(text) - 1)) ELSE text

Digits == <<"0", "1", "2", "3", "4", "5", "6", "7", "8", "9">>

IsDigit(c) == \E i \in 1..Len(Digits) : Digits[i] = c

DigitValue(c) == (CHOOSE i \in 1..Len(Digits) : Digits[i] = c) - 1

RECURSIVE DigitsValue(_, _)
\* the value of a run of decimal digits, acc being the value so far
DigitsValue(text, acc) ==
    IF text = << >> THEN acc
    ELSE DigitsValue(Tail(text), 10 * acc + DigitValue(text[1]))

\* int(line): blanks around the number are ignored, one sign is allowed,
\* then decimal digits only; anything else is a ValueError (ok = FALSE)
ParseInt(line) ==
    LET body == StripRight(StripLeft(line))
        signed == body # << >> /\ body[1] \in {"+", "-"}
        digits == IF signed THEN Tail(body) ELSE body
        neg == signed /\ body[1] = "-"
    IN  IF digits = << >> \/ \E i \in 1..Len(digits) : ~IsDigit(digits[i])
        THEN [ok |-> FALSE, v |-> 0]
        ELSE [ok |-> TRUE,
              v |-> IF neg THEN 0 - DigitsValue(digits, 0) ELSE DigitsValue(digits, 0)]

\* mutant: the entered number is used as the index as it is
ChoiceUnshifted(v) == v

\* choice = int(input(...)) - 1
Choice(v) == v - 1

\* 0 <= choice < len(available_symbols)
ValidChoice(choice, n) == 0 <= choice /\ choice < n

\* the symbols fetch_related_financial_data downloads
AAPL == <<"A", "A", "P", "L">>

MSFT == <<"M", "S", "F", "T">>

GOOGL == <<"G", "O", "O", "G", "L">>

FetchedSymbols == <<AAPL, MSFT, GOOGL>>

\* file_path of a data_sources.csv row: resources/stock_data_{symbol}.csv
StockPath(symbol) ==
    <<"r", "e", "s", "o", "u", "r", "c", "e", "s", "/", "s", "t", "o", "c", "k", "_", "d", "a", "t", "a", "_">>
        \o symbol \o <<".", "c", "s", "v">>

\* rows of another kind, and a stock row without a symbol part
NewsPath == <<"r", "e", "s", "o", "u", "r", "c", "e", "s", "/", "n", "e", "w", "s", ".", "c", "s", "v">>

BarePath == <<"s", "t", "o", "c", "k", "_", "d", "a", "t", "a", ".", "c", "s", "v">>

SourcePaths == {StockPath(FetchedSymbols[i]) : i \in 1..Len(FetchedSymbols)}
                   \cup {NewsPath, BarePath}

\* data_sources.csv: absent, or up to MaxSources rows in any order, rows
\* repeated or not
SourceFiles ==
    {[exists |-> FALSE, paths |-> << >>]}
        \cup {[exists |-> TRUE, paths |-> ps] :
                  ps \in UNION {[1..n -> SourcePaths] : n \in 0..MaxSources}}

\* what the user may type at the prompt
InputLines ==
    {<<"1">>, <<"2">>, <<"3">>, <<"4">>, <<"0">>, <<"-", "1">>, <<"+", "2">>,
     <<" ", "1", " ">>, <<"1", "0">>, <<"0", "2">>, <<"a">>, <<"2", "a">>,
     <<"1", " ", "2">>, <<"-">>, << >>}

NoSymbol == << >>

\* the selection state of run_analysis before it starts
NoSelection ==
    [file |-> [exists |-> FALSE, paths |-> << >>],
     symbols |-> << >>, symbol |-> NoSymbol, reads |-> 0, last |-> << >>]

\* the selection state once symbol has been chosen from its own sources row
Selected(symbol) ==
    [file |-> [exists |-> TRUE, paths |-> <<StockPath(symbol)>>],
     symbols |-> <<symbol>>, symbol |-> symbol, reads |-> 1, last |-> <<"1">>]

\* no batch loop is running
NoBatch == [op |-> "none"]

\* process_financial_data has not been called
NoMain == [pc |-> "none"]

\* ------------------------------------------- the analyzers, called freely
InitResults ==
    /\ df0 = df
    /\ tech = NotRun
    /\ stat = NotRun
    /\ price = NotRun
    /\ result = NotRun
    /\ news0 = news
    /\ trends = NotRun
    /\ lastPeriod = "none"
    /\ prevTrends = NotRun
    /\ prevPeriod = "none"
    /\ nstats = NotRun
    /\ topics = NotRun

InitPrice ==
    /\ df \in PriceTables
    /\ news = NoNews
    /\ InitResults

Init ==
    /\ InitPrice
    /\ pc = "idle"
    /\ sel = NoSelection
    /\ batch = NoBatch
    /\ main = NoMain

TechnicalAnalysis ==
    /\ pc = "idle"
    /\ df' = TechnicalTable(df)
    /\ tech' = TechnicalResult(df)
    /\ UNCHANGED <<df0, stat, price, pc, result>>
    /\ UNCHANGED newsVars
    /\ UNCHANGED sysVars

StatisticalAnalysis ==
    /\ pc = "idle"
    /\ df' = StatisticalTable(df)
    /\ stat' = StatisticalResult(df)
    /\ UNCHANGED <<df0, tech, price, pc, result>>
    /\ UNCHANGED newsVars
    /\ UNCHANGED sysVars

PriceAnalysis ==
    /\ pc = "idle"
    /\ price' = PriceResult(df)
    /\ UNCHANGED <<df, df0, tech, stat, pc, result>>
    /\ UNCHANGED newsVars
    /\ UNCHANGED sysVars

Next ==
    \/ TechnicalAnalysis
    \/ StatisticalAnalysis
    \/ PriceAnalysis

Spec == Init /\ [][Next]_vars

\* --------------------------------------- the headline analyzers, called freely
InitTrends ==
    /\ news \in TrendTables
    /\ df = NoPrices
    /\ InitResults
    /\ pc = "idle"
    /\ sel = NoSelection
    /\ batch = NoBatch
    /\ main = NoMain

AnalyzeTrends(time_period) ==
    /\ pc = "idle"
    /\ news' = TrendsTable(news, time_period)
    /\ trends' = TrendsResult(news, time_period)
    /\ lastPeriod' = time_period
    /\ prevTrends' = trends
    /\ prevPeriod' = lastPeriod
    /\ UNCHANGED <<news0, nstats, topics, pc>>
    /\ UNCHANGED priceVars
    /\ UNCHANGED sysVars

CalculateStatistics ==
    /\ pc = "idle"
    /\ \E days \in {Days(news)} :
           \E modes \in [1..Len(days) -> Labels] :
               /\ \A i \in 1..Len(days) : modes[i] \in ModeCandidates(news, days[i])
               /\ nstats' = StatisticsResult(news, modes)
    /\ UNCHANGED <<news, news0, trends, lastPeriod, prevTrends, prevPeriod, topics, pc>>
    /\ UNCHANGED priceVars
    /\ UNCHANGED sysVars

NextTrends ==
    \/ \E time_period \in Granularities : AnalyzeTrends(time_period)
    \/ CalculateStatistics

SpecTrends == InitTrends /\ [][NextTrends]_vars

InitTopics ==
    /\ news \in TopicTables
    /\ df = NoPrices
    /\ InitResults
    /\ pc = "idle"
    /\ sel = NoSelection
    /\ batch = NoBatch
    /\ main = NoMain

GetTrendingTopics(n_topics) ==
    /\ pc = "idle"
    /\ \E order \in FreqOrders(Words(news)) :
           topics' = TopicsResult(Words(news), order, n_topics)
    /\ UNCHANGED <<news, news0, trends, lastPeriod, prevTrends, prevPeriod, nstats, pc>>
    /\ UNCHANGED priceVars
    /\ UNCHANGED sysVars

NextTopics == \E n_topics \in 0..MaxTopics : GetTrendingTopics(n_topics)

SpecTopics == InitTopics /\ [][NextTopics]_vars

\* ------------------------------------- all four analyzers on small tables
\* price tables and headline tables of up to MaxFrameRows rows; the caller
\* holds one of the two
FramePriceTables ==
    UNION {{Table(AllColumns, c, v) : v \in VolumeSeries(Len(c))}
           \cup {Table(cs, c, [i \in 1..Len(c) |-> 1]) : cs \in PartialColumns} :
              c \in UNION {[1..n -> StepPrices] : n \in 0..MaxFrameRows}}

FrameNewsTables == {t \in TrendTables : t.n <= MaxFrameRows}

InitFrame ==
    /\ \/ df \in FramePriceTables /\ news = NoNews
       \/ df = NoPrices /\ news \in FrameNewsTables
    /\ InitResults
    /\ pc = "idle"
    /\ sel = NoSelection
    /\ batch = NoBatch
    /\ main = NoMain

NextFrame ==
    \/ TechnicalAnalysis
    \/ StatisticalAnalysis
    \/ PriceAnalysis
    \/ \E time_period \in Granularities : AnalyzeTrends(time_period)

SpecFrame == InitFrame /\ [][NextFrame]_vars

\* ------------------------------------------------- properties: analyzers
RECURSIVE WindowSum(_, _, _)
\* Close[lo] + ... + Close[hi]
WindowSum(c, lo, hi) == IF lo > hi THEN 0 ELSE c[lo] + WindowSum(c, lo + 1, hi)

\* C1: for a price series of at least 20 rows, the MA20 column that
\* technical_analysis stores is defined at row i (counted from 0) exactly
\* when i >= 19, and is then the arithmetic mean of Close[i-19..i].
C1_MA20IsWindowMean ==
    ("MA20" \in df.cols /\ df.n >= MA20Window) =>
        \A i \in 1..df.n :
            /\ IsFin(df.MA20[i]) <=> i >= MA20Window
            /\ IsFin(df.MA20[i]) =>
                   df.MA20[i].n * MA20Window
                       = WindowSum(df0.Close, i - MA20Window + 1, i) * df.MA20[i].d

\* a series longer than the window whose last two MA20 values differ
C1_Witness ==
    /\ "MA20" \in df.cols
    /\ df.n > MA20Window
    /\ IsFin(df.MA20[df.n]) /\ IsFin(df.MA20[df.n - 1])
    /\ df.MA20[df.n] # df.MA20[df.n - 1]
    /\ df.Close[1] # df.Close[df.n]

\* C2: the reported sharpe_ratio is 0 whenever the standard deviation of
\* the daily returns is exactly 0, whatever their mean; otherwise it is
\* (mean / std) * sqrt(252): NaN when std is NaN, else the number with the
\* sign of the mean whose square is 252 * mean^2 / variance.
C2_SharpeRatio ==
    "sharpe_ratio" \in DOMAIN stat =>
        LET r == PctChange(df0.Close)
            sh == stat.sharpe_ratio
        IN  /\ SurdIsZero(Std(r)) => sh = Surd(0, F(0))
            /\ Std(r).k = "nan" => sh.k = "nan"
            /\ (Std(r).k = "surd" /\ ~SurdIsZero(Std(r))) =>
                   /\ sh.k = "surd"
                   /\ sh.s = Sign(Mean(r).n)
                   /\ FMul(sh.q, Var(r)) = FMul(F(TradingDays), FMul(Mean(r), Mean(r)))

\* std exactly 0 with a mean that is not 0 (Close 1, 2, 4)
C2_Witness ==
    /\ "sharpe_ratio" \in DOMAIN stat
    /\ SurdIsZero(stat.daily_return_std)
    /\ IsFin(stat.daily_return_mean) /\ stat.daily_return_mean.n # 0
    /\ stat.sharpe_ratio = Surd(0, F(0))

\* a price series has its Close, High and Low columns
IsPriceSeries(t) == {"Close", "High", "Low"} \subseteq t.cols

\* C3: for a price series with at least one row and a non-zero first
\* Close, price_analysis reports price_change = (last - first) / first * 100,
\* which is 0 when the first and last Close are equal.
C3_PriceChange ==
    (price # NotRun /\ IsPriceSeries(df0) /\ df0.n >= 1 /\ df0.Close[1] # 0) =>
        /\ "price_change" \in DOMAIN price
        /\ IsFin(price.price_change)
        /\ price.price_change.n * df0.Close[1]
               = (df0.Close[df0.n] - df0.Close[1]) * 100 * price.price_change.d
        /\ df0.Close[1] = df0.Close[df0.n] => price.price_change = F(0)

\* a change that is not a whole number of percent: Close 0-based [4, .., 1]
\* gives -75, [2, 1, 4] gives 100
C3_Witness ==
    /\ price # NotRun /\ IsPriceSeries(df0) /\ df0.n = 3
    /\ df0.Close[1] = 4 /\ df0.Close[2] = 2 /\ df0.Close[3] = 1
    /\ price.price_change = F(-75)

\* C4 (as claimed): when the first Close is 0, price_analysis ends in its
\* error outcome and returns no record holding a price_change.
C4_ZeroFirstCloseIsError ==
    (price # NotRun /\ IsPriceSeries(df0) /\ df0.n >= 1 /\ df0.Close[1] = 0) =>
        "price_change" \notin DOMAIN price

\* the trend a technical record reports, if it reports one
TrendOf(r) == IF "trend" \in DOMAIN r THEN r.trend ELSE "unavailable"

\* C11 (as claimed): the trend is 'Upward' exactly when the series has at
\* least 20 rows and the last Close exceeds the last MA20, 'Downward'
\* exactly when it has at least 20 rows and does not; for a shorter series
\* no trend is reported, while volatility and the volume fields still are.
C11_TrendUnavailableWhenShort ==
    (tech # NotRun /\ "Close" \in df0.cols /\ df0.n >= 1) =>
        LET long == df0.n >= MA20Window
            above == FGt(F(df0.Close[df0.n]),
                         RollingMean(df0.Close, MA20Window)[df0.n])
        IN  /\ TrendOf(tech) = "Upward" <=> (long /\ above)
            /\ TrendOf(tech) = "Downward" <=> (long /\ ~above)
            /\ "volatility" \in DOMAIN tech
            /\ "Volume" \in df0.cols =>
                   {"avg_volume", "volume_trend"} \subseteq DOMAIN tech

\* C12 (as claimed): for a series with fewer than 2 non-missing daily
\* returns statistical_analysis returns its record, and the sharpe_ratio in
\* it (the statistic with a standard-deviation denominator) is 0, not NaN.
C12_ZeroSharpeWhenFewReturns ==
    (stat # NotRun /\ "Close" \in df0.cols
        /\ CountValid(PctChange(df0.Close)) < 2) =>
            /\ "sharpe_ratio" \in DOMAIN stat
            /\ stat.sharpe_ratio = Surd(0, F(0))

\* C14: whatever analyzers ran on the table before it (technical_analysis
\* storing Returns, or statistical_analysis itself), statistical_analysis
\* returns what it returns on the table as the caller built it.
C14_StatisticalSameAfterTechnical ==
    stat # NotRun => stat = StatisticalResult(df0)

\* both analyzers have run on a series of three or more rows whose returns
\* have a non-zero standard deviation, and Returns is stored in the table
C14_Witness ==
    /\ tech # NotRun /\ tech # EmptyDict
    /\ stat # NotRun /\ stat # EmptyDict
    /\ df0.n >= 3 /\ "Returns" \in df.cols /\ "Returns" \notin df0.cols
    /\ stat.daily_return_std.k = "surd" /\ ~SurdIsZero(stat.daily_return_std)
    /\ stat.sharpe_ratio.k = "surd" /\ stat.sharpe_ratio.s # 0

\* every daily return after the first is a finite number, and there are at
\* least two of them
AllFiniteReturns(c) == Len(c) >= 3 /\ \A i \in 1..(Len(c) - 1) : c[i] # 0

IsConstant(c) == \A i \in 1..Len(c) : c[i] = c[1]

IsNonNegative(x) == x.k = "surd" /\ x.s \in {0, 1}

InitRun ==
    /\ InitPrice
    /\ pc = "loaded"
    /\ sel = Selected(AAPL)
    /\ batch = NoBatch
    /\ main = NoMain

RunEmptyCheck ==
    /\ pc = "loaded"
    /\ pc' = IF df.n = 0 THEN "done" ELSE "technical"
    /\ UNCHANGED <<df, df0, tech, stat, price, result>>
    /\ UNCHANGED newsVars
    /\ UNCHANGED sysVars

RunTechnical ==
    /\ pc = "technical"
    /\ df' = TechnicalTable(df)
    /\ tech' = TechnicalResult(df)
    /\ pc' = "statistical"
    /\ UNCHANGED <<df0, stat, price, result>>
    /\ UNCHANGED newsVars
    /\ UNCHANGED sysVars

RunStatistical ==
    /\ pc = "statistical"
    /\ df' = StatisticalTable(df)
    /\ stat' = StatisticalResult(df)
    /\ pc' = "price"
    /\ UNCHANGED <<df0, tech, price, result>>
    /\ UNCHANGED newsVars
    /\ UNCHANGED sysVars

RunPrice ==
    /\ pc = "price"
    /\ price' = PriceResult(df)
    /\ pc' = "save"
    /\ UNCHANGED <<df, df0, tech, stat, result>>
    /\ UNCHANGED newsVars
    /\ UNCHANGED sysVars

RunSave ==
    /\ pc = "save"
    /\ result' = [symbol |-> sel.symbol,
                  technical |-> tech, statistical |-> stat, price |-> price]
    /\ pc' = "done"
    /\ UNCHANGED <<df, df0, tech, stat, price>>
    /\ UNCHANGED newsVars
    /\ UNCHANGED sysVars

NextRun ==
    \/ RunEmptyCheck
    \/ RunTechnical
    \/ RunStatistical
    \/ RunPrice
    \/ RunSave

SpecRun == InitRun /\ [][NextRun]_vars

\* ----------------------------------- run_analysis from its first line on
\* what load_stock_data may return for the chosen symbol: a table without
\* rows, a full table, tables that lack a column
SelectTables ==
    {NoPrices, Table(AllColumns, <<1, 2>>, <<1, 1>>)}
        \cup {Table(cs, <<2, 1>>, <<1, 1>>) : cs \in PartialColumns}

InitSelect ==
    /\ df = NoPrices
    /\ news = NoNews
    /\ InitResults
    /\ pc = "start"
    /\ \E file \in SourceFiles : sel = [NoSelection EXCEPT !.file = file]
    /\ batch = NoBatch
    /\ main = NoMain

\* lines 194-213: no resources directory or no data_sources.csv, a stock
\* row without a symbol part (IndexError, caught at line 288), or no stock
\* row at all: return None; otherwise the sorted symbols are listed
RunListSymbols ==
    /\ pc = "start"
    /\ IF ~sel.file.exists THEN pc' = "done" /\ UNCHANGED sel
       ELSE IF ~SymbolsParse(sel.file.paths) THEN pc' = "done" /\ UNCHANGED sel
       ELSE IF AvailableSymbols(sel.file.paths) = << >> THEN pc' = "done" /\ UNCHANGED sel
       ELSE /\ pc' = "prompt"
            /\ sel' = [sel EXCEPT !.symbols = AvailableSymbols(sel.file.paths)]
    /\ UNCHANGED <<batch, main>>
    /\ UNCHANGED priceVars
    /\ UNCHANGED newsVars

\* lines 220-229: one pass of the prompt loop on the line the user typed
RunPrompt(line) ==
    /\ pc = "prompt"
    /\ sel.reads < MaxPrompts
    /\ LET parsed == ParseInt(line)
           choice == Choice(parsed.v)
       IN  IF parsed.ok /\ ValidChoice(choice, Len(sel.symbols))
           THEN /\ sel' = [sel EXCEPT !.symbol = sel.symbols[choice + 1],
                                      !.reads = @ + 1, !.last = line]
                /\ pc' = "selected"
           ELSE /\ sel' = [sel EXCEPT !.reads = @ + 1, !.last = line]
                /\ pc' = "prompt"
    /\ UNCHANGED <<batch, main>>
    /\ UNCHANGED priceVars
    /\ UNCHANGED newsVars

\* input() at the end of standard input raises EOFError, which line 288
\* catches: return None
RunEndOfInput ==
    /\ pc = "prompt"
    /\ pc' = "done"
    /\ UNCHANGED sysVars
    /\ UNCHANGED priceVars
    /\ UNCHANGED newsVars

\* line 233: the table of the chosen symbol, or the exception that
\* load_stock_data raises and line 288 catches
RunLoad ==
    /\ pc = "selected"
    /\ \/ \E t \in SelectTables : df' = t /\ df0' = t /\ pc' = "loaded"
       \/ pc' = "done" /\ UNCHANGED <<df, df0>>
    /\ UNCHANGED <<tech, stat, price, result>>
    /\ UNCHANGED sysVars
    /\ UNCHANGED newsVars

NextSelect ==
    \/ RunListSymbols
    \/ \E line \in InputLines : RunPrompt(line)
    \/ RunEndOfInput
    \/ RunLoad
    \/ RunEmptyCheck
    \/ RunTechnical
    \/ RunStatistical
    \/ RunPrice
    \/ RunSave

SpecSelect == InitSelect /\ [][NextSelect]_vars

\* --------------------------------------------- properties: frame of the tables
UnchangedColumn(t, t0, col) == col \in t0.cols => (col \in t.cols /\ t[col] = t0[col])

RECURSIVE FSumOver(_, _)
\* the sum of the floats f[x], x in S
FSumOver(f, S) ==
    IF S = {} THEN F(0)
    ELSE LET x == CHOOSE y \in S : TRUE IN FAdd(f[x], FSumOver(f, S \ {x}))

\* the headlines of the table as built that fall in bucket key of the
\* last call, with the given labels
InBucket(key, labels) ==
    {i \in 1..news0.n :
        /\ PeriodCell(ToDatetimeCell(news0.publishedAt[i]), lastPeriod) = Key(key)
        /\ news0.sentiment[i] \in labels}

\* C5: in the result of analyze_trends, the percentages of every bucket of
\* the output sum to 100, and each is 100 * (the label's count in the
\* bucket) / (the bucket's count).
C5_PercentagesSumTo100 ==
    trends # NotRun =>
        \A key \in DOMAIN trends.percentages :
            LET row == trends.percentages[key]
            IN  /\ FSumOver(row, DOMAIN row) = F(100)
                /\ \A label \in DOMAIN row :
                       /\ IsFin(row[label])
                       /\ row[label].n * Cardinality(InBucket(key, Labels))
                              = 100 * Cardinality(InBucket(key, {label})) * row[label].d

\* the example of the specification: two buckets, one split evenly between
\* the labels, one with a single label (100 and a filled-in 0)
C5_Witness ==
    /\ trends # NotRun
    /\ Cardinality(DOMAIN trends.percentages) = 2
    /\ \E k1, k2 \in DOMAIN trends.percentages :
           /\ DOMAIN trends.percentages[k1] = Labels
           /\ trends.percentages[k1]["POSITIVE"] = F(50)
           /\ trends.percentages[k1]["NEGATIVE"] = F(50)
           /\ trends.percentages[k2]["POSITIVE"] = F(100)
           /\ trends.percentages[k2]["NEGATIVE"] = F(0)

\* C6: a second call of analyze_trends on the table as the first call left
\* it, with the same time_period, returns the counts and percentages of the
\* first.
C6_AnalyzeTrendsIdempotent ==
    (prevPeriod # "none" /\ prevPeriod = lastPeriod) => trends = prevTrends

\* a repeated weekly call on a table whose rows fall in two weeks and whose
\* publishedAt column the first call converted
C6_Witness ==
    /\ prevPeriod = "weekly" /\ lastPeriod = "weekly"
    /\ news # news0
    /\ Cardinality(DOMAIN trends.counts) = 2
    /\ news0.n = MaxRows

\* C7 (as claimed): sentiment_shifts is the number of pairs of adjacent
\* daily buckets whose modes differ; the first bucket adds nothing.
C7_ShiftsAreAdjacentChanges ==
    nstats # NotRun =>
        nstats.sentiment_shifts
            = Cardinality({i \in 2..Len(nstats.daily_sentiment) :
                              nstats.daily_sentiment[i] # nstats.daily_sentiment[i - 1]})

\* the granularity key of a publication time (hours since the epoch): the
\* calendar date (as its day number), the ISO week number, the month number
GranularityKey(t, time_period) ==
    IF time_period = "weekly" THEN IsoWeek(t \div 24)
    ELSE IF time_period = "monthly" THEN CivilFromDays(t \div 24).m
    ELSE t \div 24

\* the headlines of the table as built that carry a publication time
Timed == {i \in 1..news0.n : news0.publishedAt[i].kind = "str"}

\* the timed headlines with the given key and label
Counted(k, label) ==
    {i \in Timed : /\ GranularityKey(news0.publishedAt[i].t, lastPeriod) = k
                   /\ news0.sentiment[i] = label}

\* the sum of all counts over all buckets and labels
TotalCount ==
    LET rowSum == [k \in DOMAIN trends.counts |->
                      SumOver(trends.counts[k], DOMAIN trends.counts[k])]
    IN  SumOver(rowSum, DOMAIN rowSum)

\* the counts are those of the partition of the headlines in S by key: a
\* cell counts the headlines of S with its key and label, and every
\* headline of S has a cell
PartitionedByKey(S) ==
    /\ \A k \in DOMAIN trends.counts :
           \A label \in DOMAIN trends.counts[k] :
               trends.counts[k][label] = Cardinality(Counted(k, label) \cap S)
    /\ \A i \in S :
           LET k == GranularityKey(news0.publishedAt[i].t, lastPeriod)
           IN  /\ k \in DOMAIN trends.counts
               /\ news0.sentiment[i] \in DOMAIN trends.counts[k]
    /\ TotalCount = Cardinality(S)

\* C17 (as claimed): the buckets partition the headlines by granularity
\* key, every headline is counted once under its own key and label, and
\* the counts add up to the number of headlines.
C17_EveryHeadlineCounted ==
    trends # NotRun =>
        /\ Timed = 1..news0.n
        /\ PartitionedByKey(1..news0.n)

\* C17 (amended): the buckets partition the headlines that have a
\* publication time by granularity key, each counted once under its own
\* key and label; the counts add up to the number of those headlines, and
\* a headline without a publication time is counted nowhere.
C17_TimedHeadlinesCounted ==
    trends # NotRun => PartitionedByKey(Timed)

\* a weekly call on three headlines: one of 1 January 2024 and one of 30
\* December 2024, both of ISO week 1 and counted in one bucket, and one
\* without a publication time
C17_Witness ==
    /\ trends # NotRun /\ lastPeriod = "weekly"
    /\ news0.n = 3 /\ Cardinality(Timed) = 2
    /\ \E i, j \in Timed : /\ news0.publishedAt[i].t = Hours(2024, 12, 30, 8)
                           /\ news0.publishedAt[j].t = Hours(2024, 1, 1, 9)
    /\ DOMAIN trends.counts = {1}
    /\ TotalCount = 2

\* ------------------------------------------------ properties: trending topics
\* the words of the titles as built, split before they are lower-cased
RawWords == SplitFrom(JoinFrom(news0.title, 1, TRUE), 1, << >>)

\* the number of occurrences of the word w, whatever their case
Occurrences(w) == Cardinality({i \in 1..Len(RawWords) : Lower(RawWords[i]) = w})

NonStopWords == {Lower(RawWords[i]) : i \in 1..Len(RawWords)} \ Stopwords

\* the position of the first occurrence of w in the combined text
FirstOccurrence(w) ==
    CHOOSE i \in 1..Len(RawWords) :
        /\ Lower(RawWords[i]) = w
        /\ \A j \in 1..(i - 1) : Lower(RawWords[j]) # w

\* what the claim and its amendment share
TopicsWellFormed ==
    LET items == topics.items
        returned == {items[i].word : i \in 1..Len(items)}
    IN  /\ Len(items) <= topics.n_topics
        /\ \A i \in 1..Len(items) :
               /\ items[i].word \in NonStopWords
               /\ items[i].count = Occurrences(items[i].word)
               /\ \A j \in 1..Len(items) : i # j => items[i].word # items[j].word
               /\ i < Len(items) => items[i].count >= items[i + 1].count
               /\ \A w \in NonStopWords \ returned : Occurrences(w) <= items[i].count

\* C8 (as claimed): at most n (word, count) entries of lower-cased words of
\* the titles, no stopword, counts case-insensitive, by descending count
\* with equal counts in the order of first occurrence, and no omitted word
\* with a larger count than a returned one.
C8_TopicsTiesByFirstOccurrence ==
    topics # NotRun =>
        /\ TopicsWellFormed
        /\ \A i, j \in 1..Len(topics.items) :
               (i < j /\ topics.items[i].count = topics.items[j].count) =>
                   FirstOccurrence(topics.items[i].word) < FirstOccurrence(topics.items[j].word)

\* C8 (amended): as claimed, but with no order stated among equal counts.
C8_TopicsByDescendingCount == topics # NotRun => TopicsWellFormed

\* a cut below the number of words, a count of 2 from two cases of a word,
\* a stopword in the titles
C8_Witness ==
    /\ topics # NotRun
    /\ topics.n_topics = 1
    /\ Len(topics.items) = 1
    /\ topics.items[1] = [word |-> <<"x">>, count |-> 2]
    /\ Cardinality(NonStopWords) >= 2
    /\ \E i \in 1..Len(RawWords) : RawWords[i] = <<"X">>
    /\ \E i \in 1..Len(RawWords) : Lower(RawWords[i]) \in Stopwords

\* ------------------------------------------------ properties: run_analysis
Sections == {"technical", "statistical", "price"}

\* what an analyzer returns for the table as loaded, run on its own
Alone(sec) ==
    IF sec = "technical" THEN TechnicalResult(df0)
    ELSE IF sec = "statistical" THEN StatisticalResult(df0)
    ELSE PriceResult(df0)

\* C9: in run_analysis, when one of the three analyzers fails (returns {}),
\* the other two have still been run, and each of their sections in the
\* result record is what that analyzer returns for the loaded table when it
\* is run on its own.
C9_AnalyzersIndependent ==
    (pc = "done" /\ df0.n > 0) =>
        /\ result # NotRun
        /\ \A sec \in Sections : result[sec] # NotRun
        /\ \A failed \in Sections : result[failed] = EmptyDict =>
               \A sec \in Sections \ {failed} : result[sec] = Alone(sec)

\* price_analysis failed (no High column), the other two sections are there
\* and the returns are not all zero
C9_Witness ==
    /\ pc = "done"
    /\ result # NotRun
    /\ result.price = EmptyDict
    /\ result.technical # EmptyDict
    /\ result.statistical # EmptyDict
    /\ "Returns" \in df.cols /\ "Returns" \notin df0.cols
    /\ IsFin(result.statistical.daily_return_mean)
    /\ result.statistical.daily_return_mean.n # 0

\* an error outcome that names the symbol and the analyzer that failed
IsErrorOutcome(r, symbol, analyzer) ==
    /\ {"error", "symbol", "analyzer"} \subseteq DOMAIN r
    /\ r.symbol = symbol
    /\ r.analyzer = analyzer

\* C13 (as claimed): when the loaded table has no Close column, each of the
\* three analyzers (all need Close) hands the caller an error outcome that
\* names the symbol and the analyzer, which the caller can tell from the
\* record of a successful analysis.
C13_MissingCloseIsError ==
    (pc = "done" /\ df0.n > 0 /\ "Close" \notin df0.cols) =>
        /\ result # NotRun
        /\ \A sec \in Sections : IsErrorOutcome(result[sec], sel.symbol, sec)

\* ------------------------------------------------- the per-symbol loops
\* fetch_related_financial_data (data_loader.py) and load_analysis_results
\* (visualize.py): one pass per symbol or file inside try/except.
\* What happens to one symbol of the fetch loop: data downloaded and saved,
\* an empty download, yf.download raising, to_csv raising
FetchOutcomes == {"saved", "empty", "download_raises", "save_raises"}

\* What happens to one results file: loaded, loaded with a section that
\* neither json.loads nor ast.literal_eval can parse (replaced by {}),
\* read_csv raising, a file without a data row (iloc[0] raises)
LoadOutcomes == {"loaded", "section_unparsable", "read_raises", "no_rows"}

\* the outcomes that leave the pass through the except branch
Raises == {"download_raises", "save_raises", "read_raises", "no_rows"}

\* resources/analysis_results_{symbol}.csv, as run_analysis names it
ResultsPath(symbol) ==
    <<"r", "e", "s", "o", "u", "r", "c", "e", "s", "/", "a", "n", "a", "l", "y", "s", "i", "s", "_", "r", "e", "s", "u", "l", "t", "s", "_">>
        \o symbol \o <<".", "c", "s", "v">>

\* file.split('_')[-1].split('.')[0]
SymbolOfResultsFile(file) ==
    LET parts == SplitOn(file, "_") IN SplitOn(parts[Len(parts)], ".")[1]

\* glob.glob: the results files of any of the symbols, in any order
ResultsFileLists ==
    {fs \in UNION {[1..n -> {ResultsPath(FetchedSymbols[i]) : i \in 1..Len(FetchedSymbols)}] :
                      n \in 0..Len(FetchedSymbols)} :
        \A i, j \in 1..Len(fs) : i # j => fs[i] # fs[j]}

\* mutant: the first failure ends the loop
AfterErrorBreaking(i, n) == n + 1

\* except Exception ...: continue
AfterError(i, n) == i + 1

\* a loop about to start: the items, what will happen to each, the position
\* i, the symbols seen so far, the output built so far, the return value
Batch(op, items, outcome) ==
    [op |-> op, items |-> items, outcome |-> outcome,
     i |-> 1, seen |-> << >>, out |-> << >>, ret |-> "running"]

InitBatch ==
    /\ df = NoPrices
    /\ news = NoNews
    /\ InitResults
    /\ pc = "idle"
    /\ sel = NoSelection
    /\ main = NoMain
    /\ \/ \E outcome \in [1..Len(FetchedSymbols) -> FetchOutcomes] :
              batch = Batch("fetch", FetchedSymbols, outcome)
       \/ \E files \in ResultsFileLists :
              \E outcome \in [1..Len(files) -> LoadOutcomes] :
                  batch = Batch("load", files, outcome)

\* data_loader.py lines 82-108: one pass of the loop over common_symbols[:3]
FetchSymbol ==
    /\ batch.op = "fetch"
    /\ batch.i <= Len(batch.items)
    /\ LET symbol == batch.items[batch.i]
           outcome == batch.outcome[batch.i]
       IN  batch' = [batch EXCEPT
                        !.seen = Append(@, symbol),
                        !.out = IF outcome = "saved"
                                THEN Append(@, [symbol |-> symbol,
                                                file_path |-> StockPath(symbol)])
                                ELSE @,
                        !.i = IF outcome \in Raises
                              THEN AfterError(batch.i, Len(batch.items))
                              ELSE batch.i + 1]
    /\ UNCHANGED <<pc, sel, main>>
    /\ UNCHANGED priceVars
    /\ UNCHANGED newsVars

\* data_loader.py lines 111-118: the sources table, saved and returned, or
\* an empty table; to_csv at line 113 is outside the try and may raise
FetchReturn ==
    /\ batch.op = "fetch"
    /\ batch.i > Len(batch.items)
    /\ batch.ret = "running"
    /\ \/ batch' = [batch EXCEPT !.ret = IF batch.out # << >> THEN "sources" ELSE "empty"]
       \/ batch.out # << >> /\ batch' = [batch EXCEPT !.ret = "raised"]
    /\ UNCHANGED <<pc, sel, main>>
    /\ UNCHANGED priceVars
    /\ UNCHANGED newsVars

\* visualize.py lines 16-45: one pass of the loop over the results files
LoadFile ==
    /\ batch.op = "load"
    /\ batch.i <= Len(batch.items)
    /\ LET symbol == SymbolOfResultsFile(batch.items[batch.i])
           outcome == batch.outcome[batch.i]
       IN  batch' = [batch EXCEPT
                        !.seen = Append(@, symbol),
                        !.out = IF outcome \in Raises THEN @
                                ELSE Append(@, [symbol |-> symbol,
                                                complete |-> outcome = "loaded"]),
                        !.i = IF outcome \in Raises
                              THEN AfterError(batch.i, Len(batch.items))
                              ELSE batch.i + 1]
    /\ UNCHANGED <<pc, sel, main>>
    /\ UNCHANGED priceVars
    /\ UNCHANGED newsVars

\* visualize.py line 47
LoadReturn ==
    /\ batch.op = "load"
    /\ batch.i > Len(batch.items)
    /\ batch.ret = "running"
    /\ batch' = [batch EXCEPT !.ret = "results"]
    /\ UNCHANGED <<pc, sel, main>>
    /\ UNCHANGED priceVars
    /\ UNCHANGED newsVars

NextBatch ==
    \/ FetchSymbol
    \/ FetchReturn
    \/ LoadFile
    \/ LoadReturn

SpecBatch == InitBatch /\ [][NextBatch]_vars

\* ------------------------------------------ properties: the per-symbol loops
\* the symbol of item j of the running loop
ItemSymbol(j) ==
    IF batch.op = "fetch" THEN batch.items[j] ELSE SymbolOfResultsFile(batch.items[j])

RECURSIVE Succeeded(_)
\* the symbols of the items 1..j that left their pass without an exception
\* and with data, in order
Succeeded(j) ==
    IF j = 0 THEN << >>
    ELSE IF batch.outcome[j] \in {"saved", "loaded", "section_unparsable"}
         THEN Append(Succeeded(j - 1), ItemSymbol(j))
         ELSE Succeeded(j - 1)

\* C16: in both loops no symbol is skipped, whatever failed before it: the
\* symbols processed so far are those of the items before the position, in
\* order, the output holds exactly the ones that succeeded, and when the
\* loop is over every symbol of the batch has been processed.
C16_FailuresDoNotAbortBatch ==
    batch.op \in {"fetch", "load"} =>
        /\ batch.i \in 1..(Len(batch.items) + 1)
        /\ batch.seen = [j \in 1..(batch.i - 1) |-> ItemSymbol(j)]
        /\ [j \in 1..Len(batch.out) |-> batch.out[j].symbol] = Succeeded(batch.i - 1)
        /\ batch.ret # "running" =>
               /\ Len(batch.seen) = Len(batch.items)
               /\ batch.ret \in {"sources", "results"} =>
                      {batch.out[j].symbol : j \in 1..Len(batch.out)}
                          = {ItemSymbol(j) : j \in {k \in 1..Len(batch.items) :
                                batch.outcome[k] \notin Raises \cup {"empty"}}}

\* the download of the first symbol raised, the second symbol was saved,
\* saving the third raised, and the sources table returned holds the second
C16_Witness ==
    /\ batch.op = "fetch" /\ batch.ret = "sources"
    /\ batch.outcome = <<"download_raises", "saved", "save_raises">>
    /\ batch.seen = FetchedSymbols
    /\ Len(batch.out) = 1 /\ batch.out[1].symbol = MSFT

\* ------------------------------------------------ process_financial_data
\* main.py lines 24-70.  The source argument and the file_path argument
\* (None, the empty string, a path):
Sources == {<<"a", "p", "i">>, <<"A", "P", "I">>, <<"f", "i", "l", "e">>, <<"F", "i", "l", "e">>, <<"f", "t", "p">>,
            << >>}

NoPath == [none |-> TRUE, text |-> << >>]

FilePaths == {NoPath, [none |-> FALSE, text |-> << >>],
              [none |-> FALSE, text |-> <<"n", ".", "c", "s", "v">>]}

\* `not file_path`
Falsy(file_path) == file_path.none \/ file_path.text = << >>

\* lines 35-47: which branch the source takes
NewsSource(source, file_path) ==
    IF Lower(source) = <<"a", "p", "i">> THEN "api"
    ELSE IF Lower(source) = <<"f", "i", "l", "e">>
         THEN IF Falsy(file_path) THEN "no_file_path" ELSE "file"
    ELSE "bad_source"

\* mutant: the stock analysis runs before the stock fetch
MainStepsAnalysisFirst ==
    <<"mkdir", "stock_analysis", "stock_fetch", "news_load", "save_news",
      "sentiment", "save_sentiment", "visualization", "return">>

\* the statements of the try block in program order
MainSteps ==
    <<"mkdir", "stock_fetch", "stock_analysis", "news_load", "save_news",
      "sentiment", "save_sentiment", "visualization", "return">>

\* the step has run to its end: logged, and the next one is due
Completed(m, name) ==
    [m EXCEPT !.steps = Append(@, [name |-> name, ok |-> TRUE]), !.at = @ + 1]

\* the step has raised: lines 68-70 print and re-raise
Failed(m, name, error) ==
    [m EXCEPT !.steps = Append(@, [name |-> name, ok |-> FALSE]),
              !.outcome = "raised", !.error = error]

\* a statement that is not one of the five steps: done, or raised
Passed(m) == [m EXCEPT !.at = @ + 1]

Aborted(m, error) == [m EXCEPT !.outcome = "raised", !.error = error]

InitMain ==
    /\ df = NoPrices
    /\ news = NoNews
    /\ InitResults
    /\ pc = "idle"
    /\ sel = NoSelection
    /\ batch = NoBatch
    /\ \E source \in Sources, file_path \in FilePaths, save \in BOOLEAN :
           main = [pc |-> "called", source |-> source, file_path |-> file_path,
                   save_intermediates |-> save, at |-> 1, steps |-> << >>,
                   outcome |-> "running", error |-> "none"]

MainAt(name) ==
    /\ main.pc = "called"
    /\ main.outcome = "running"
    /\ MainSteps[main.at] = name

MainFrame ==
    /\ UNCHANGED <<pc, sel, batch>>
    /\ UNCHANGED priceVars
    /\ UNCHANGED newsVars

\* line 26: Path("resources").mkdir(exist_ok=True)
MainMkdir ==
    /\ MainAt("mkdir")
    /\ main' \in {Passed(main), Aborted(main, "other")}
    /\ MainFrame

\* line 30: fetch_related_financial_data; its final to_csv may raise
MainFetch ==
    /\ MainAt("stock_fetch")
    /\ main' \in {Completed(main, "stock_fetch"), Failed(main, "stock_fetch", "other")}
    /\ MainFrame

\* line 31: run_analysis catches every Exception and returns
MainAnalysis ==
    /\ MainAt("stock_analysis")
    /\ main' = Completed(main, "stock_analysis")
    /\ MainFrame

\* lines 35-47: the news are fetched or read, or ValueError is raised
\* for the arguments before anything is loaded
MainNews ==
    /\ MainAt("news_load")
    /\ LET kind == NewsSource(main.source, main.file_path)
       IN  IF kind = "bad_source" THEN main' = Aborted(main, "ValueError: source")
           ELSE IF kind = "no_file_path" THEN main' = Aborted(main, "ValueError: file_path")
           ELSE IF kind = "api"
                THEN main' \in {Completed(main, "news_load"),
                                Failed(main, "news_load", "ValueError: NewsAPI"),
                                Failed(main, "news_load", "other")}
           ELSE main' \in {Completed(main, "news_load"),
                           Failed(main, "news_load", "other")}
    /\ MainFrame

\* lines 49-51
MainSaveNews ==
    /\ MainAt("save_news")
    /\ IF main.save_intermediates
       THEN main' \in {Passed(main), Aborted(main, "other")}
       ELSE main' = Passed(main)
    /\ MainFrame

\* lines 55-56: df["title"], the classifier, concat
MainSentiment ==
    /\ MainAt("sentiment")
    /\ main' \in {Completed(main, "sentiment"), Failed(main, "sentiment", "other")}
    /\ MainFrame

\* lines 58-60
MainSaveSentiment ==
    /\ MainAt("save_sentiment")
    /\ IF main.save_intermediates
       THEN main' \in {Passed(main), Aborted(main, "other")}
       ELSE main' = Passed(main)
    /\ MainFrame

\* line 64: visualize_all_data catches every Exception and returns
MainVisualize ==
    /\ MainAt("visualization")
    /\ main' = Completed(main, "visualization")
    /\ MainFrame

\* line 66
MainReturn ==
    /\ MainAt("return")
    /\ main' = [main EXCEPT !.outcome = "returned"]
    /\ MainFrame

NextMain ==
    \/ MainMkdir
    \/ MainFetch
    \/ MainAnalysis
    \/ MainNews
    \/ MainSaveNews
    \/ MainSentiment
    \/ MainSaveSentiment
    \/ MainVisualize
    \/ MainReturn

SpecMain == InitMain /\ [][NextMain]_vars

\* ----------------------------------- properties: process_financial_data
ClaimedOrder ==
    <<"stock_fetch", "stock_analysis", "news_load", "sentiment", "visualization">>

\* the source is not 'api' or 'file' in any letter case, or it is 'file'
\* and no file_path is given
Unrecognised ==
    \/ Lower(main.source) \notin {<<"a", "p", "i">>, <<"f", "i", "l", "e">>}
    \/ Lower(main.source) = <<"f", "i", "l", "e">> /\ Falsy(main.file_path)

SourceErrors == {"ValueError: source", "ValueError: file_path"}

\* C19: the steps that have run are, in this order, stock fetch, stock
\* analysis, news load, sentiment analysis, visualization, none left out
\* and each begun only after all before it completed; an unrecognised
\* source (or 'file' without file_path) ends the call in ValueError once
\* the stock fetch and the stock analysis have completed, and then no
\* further step has run.
C19_StepsInOrder ==
    main.pc = "called" =>
        /\ Len(main.steps) <= Len(ClaimedOrder)
        /\ [j \in 1..Len(main.steps) |-> main.steps[j].name]
               = SubSeq(ClaimedOrder, 1, Len(main.steps))
        /\ \A j \in 1..(Len(main.steps) - 1) : main.steps[j].ok
        /\ (main.steps # << >> /\ ~main.steps[Len(main.steps)].ok) =>
               main.outcome = "raised"
        /\ main.outcome = "returned" =>
               Len(main.steps) = Len(ClaimedOrder) /\ main.error = "none"
        /\ main.error \in SourceErrors <=>
               /\ Unrecognised
               /\ main.outcome = "raised"
               /\ Len(main.steps) = 2 /\ main.steps[2].ok
        /\ Unrecognised => Len(main.steps) <= 2 /\ main.outcome # "returned"

\* called with source 'ftp': ValueError after the two stock steps
C19_Witness ==
    /\ main.pc = "called"
    /\ main.source = <<"f", "t", "p">>
    /\ main.outcome = "raised" /\ main.error = "ValueError: source"
    /\ main.steps = <<[name |-> "stock_fetch", ok |-> TRUE],
                      [name |-> "stock_analysis", ok |-> TRUE]>>

\* ---------------------------------------- properties: the stock selection
\* the symbols of the stock rows of data_sources.csv
AvailableSet ==
    {SymbolOfPath(sel.file.paths[i]) :
        i \in {j \in 1..Len(sel.file.paths) : Contains(sel.file.paths[j], StockDataTag)}}

\* the line parses as an integer k with 1 <= k <= number of available symbols
ValidLine(line) ==
    /\ ParseInt(line).ok
    /\ 1 <= ParseInt(line).v
    /\ ParseInt(line).v <= Cardinality(AvailableSet)

\* s is the k-th of the available symbols in ascending order
IsKth(s, k) ==
    /\ s \in AvailableSet
    /\ Cardinality({y \in AvailableSet : LexLess(y, s)}) = k - 1

\* C18: while run_analysis prompts, nothing has changed but the prompt
\* itself, and every line read so far was non-numeric or out of range; the
\* loop has been left with a symbol only by a line that parses as an
\* integer k with 1 <= k <= number of available symbols; the symbol then
\* analysed and named in the result record is the k-th of the sorted,
\* de-duplicated available symbols.
C18_SelectionLoop ==
    /\ pc = "prompt" =>
           /\ sel.symbol = NoSymbol
           /\ sel.reads > 0 => ~ValidLine(sel.last)
           /\ df = NoPrices /\ df0 = NoPrices
           /\ tech = NotRun /\ stat = NotRun /\ price = NotRun /\ result = NotRun
           /\ \A k \in 1..Len(sel.symbols) : IsKth(sel.symbols[k], k)
    /\ pc \in {"selected", "loaded", "technical", "statistical", "price", "save"} =>
           sel.symbol # NoSymbol
    /\ sel.symbol # NoSymbol =>
           /\ ValidLine(sel.last)
           /\ IsKth(sel.symbol, ParseInt(sel.last).v)
    /\ (df # NoPrices \/ result # NotRun) => sel.symbol # NoSymbol
    /\ result # NotRun => result.symbol = sel.symbol

\* the sources file lists MSFT first and two more symbols; after one
\* rejected line the user typed +2, and the result record names GOOGL, the
\* second symbol in ascending order
C18_Witness ==
    /\ pc = "done" /\ result # NotRun
    /\ Len(sel.symbols) = 3
    /\ sel.file.paths[1] = StockPath(MSFT)
    /\ sel.reads = 2 /\ sel.last = <<"+", "2">>
    /\ result.symbol = GOOGL

=============================================================================
